---- MODULE Spec2Model ----
(***************************************************************************)
(* Model of compoundfile/parser.py: the parse of one Compound File Binary  *)
(* container performed by run(), with the helpers get_sector_id,           *)
(* get_sector_data, get_count and parse_direntry.                          *)
(*                                                                         *)
(* Bytes are integers 0..255, byte strings are sequences of bytes.  A      *)
(* Python call that can raise is an operator returning [err, val]: err is  *)
(* "none" or the name of the exception raised.                             *)
(***************************************************************************)
EXTENDS Integers, Sequences, FiniteSets, TLC

(***************************************************************************)
(* Bounds of the model.                                                    *)
(***************************************************************************)
\* cap on the number of iterations of the directory chain loop that the
\* model follows (the loop of the code has no cap)
MaxIter == 8
\* largest FAT sector count written in the header of the generated inputs
MaxFatCount == 2
\* largest DIFAT sector count written in the header of the generated inputs
MaxDifatCount == 2
\* the sector ids -MaxProbe..MaxProbe are all given to get_sector_id
MaxProbe == 40

(***************************************************************************)
(* Module constants of parser.py.                                          *)
(***************************************************************************)
SECTOR_SHIFT_OFFSET == 30
SECTOR_SHIFT_SIZE == 2
NUM_DIFAT_SECTS_OFFSET == 72
NUM_DIFAT_SECTS_SIZE == 4
FIRST_DIFAT_SECT_OFFSET == 68
FIRST_DIFAT_SECT_SIZE == 4
HEADER_DIFAT_OFFSET == 76
HEADER_DIFAT_SIZE == 436
NUM_FAT_SECTS_OFFSET == 44
NUM_FAT_SECTS_SIZE == 4
FIRST_DIR_SECT_OFFSET == 48
FIRST_DIR_SECT_SIZE == 4

\* class SectorType
DIFSECT == -4
FATSECT == -3
ENDOFCHAIN == -2
FREESECT == -1

\* the magic compared in run(): D0 CF 11 E0 A1 B1 1A E1
MAGIC == <<208, 207, 17, 224, 161, 177, 26, 225>>
\* the size of the slices read from the directory stream
DIRENTRY_SIZE == 128
\* the size of the chunks a sector id is decoded from
SECTOR_ID_SIZE == 4

\* Python's None as the offset of a sentinel; offsets are >= 1, so -1 is free
None == -1

(***************************************************************************)
(* Python values: slices, struct.unpack_from, exceptions.                  *)
(***************************************************************************)
Min(a, b) == IF a < b THEN a ELSE b

\* s[a:b] for 0 <= a and 0 <= b: both ends are clamped to the length
Slice(s, a, b) ==
  LET lo == Min(a, Len(s))
      hi == Min(b, Len(s))
  IN IF hi <= lo THEN <<>> ELSE SubSeq(s, lo + 1, hi)

Ok(v) == [err |-> "none", val |-> v]
Raise(e) == [err |-> e, val |-> <<>>]

\* struct.unpack_from('<H', raw), '<B', '<l', '<L', '<Q' on a buffer that is
\* long enough; a shorter buffer raises struct.error (see Unpackable)
Unpackable(raw, size) == Len(raw) >= size
unpack_H(raw) == raw[1] + 256 * raw[2]
unpack_B(raw) == raw[1]
unpack_L(raw) == raw[1] + 256 * (raw[2] + 256 * (raw[3] + 256 * raw[4]))
unpack_l(raw) ==
  raw[1] + 256 * (raw[2] + 256 * (raw[3]
     + 256 * (IF raw[4] >= 128 THEN raw[4] - 256 ELSE raw[4])))
unpack_Q(raw) ==
  raw[1] + 256 * (raw[2] + 256 * (raw[3] + 256 * (raw[4] + 256 * (raw[5]
     + 256 * (raw[6] + 256 * (raw[7] + 256 * raw[8]))))))

RECURSIVE Pow2(_)
Pow2(n) == IF n = 0 THEN 1 ELSE 2 * Pow2(n - 1)

\* f'{n:X}'
RECURSIVE HexUpper(_)
HexDigit(d) == SubSeq("0123456789ABCDEF", d + 1, d + 1)
HexUpper(n) == IF n < 16 THEN HexDigit(n)
               ELSE HexUpper(n \div 16) \o HexDigit(n % 16)

(***************************************************************************)
(* get_sector_id, get_sector_data, get_count.                              *)
(***************************************************************************)
SectorTypeValues == {DIFSECT, FATSECT, ENDOFCHAIN, FREESECT}
\* SectorType(sector_id).name
SectorTypeName(v) ==
  CASE v = DIFSECT -> "DIFSECT"
    [] v = FATSECT -> "FATSECT"
    [] v = ENDOFCHAIN -> "ENDOFCHAIN"
    [] v = FREESECT -> "FREESECT"

\* the namedtuple SectorID
SectorID(sector_id, display, offset) ==
  [sector_id |-> sector_id, display |-> display, offset |-> offset]

\* the offset line 48 but without the header sector: a mutant of SectorOffset
SectorOffset_NoHeader(sector_id, sector_size) == sector_id * sector_size
\* offset = sector_size + sector_id * sector_size
SectorOffset(sector_id, sector_size) == sector_size + sector_id * sector_size

get_sector_id(sector_id_raw, sector_size) ==
  IF ~Unpackable(sector_id_raw, 4) THEN Raise("struct.error")
  ELSE LET sector_id == unpack_l(sector_id_raw) IN
    IF sector_id < 0
    THEN IF sector_id \in SectorTypeValues
         THEN Ok(SectorID(sector_id, SectorTypeName(sector_id), None))
         ELSE Raise("ValueError")
    ELSE LET offset == SectorOffset(sector_id, sector_size)
         IN Ok(SectorID(sector_id, "0x" \o HexUpper(offset), offset))

\* data[offset:offset + size]; a None offset raises TypeError in the sum
get_sector_data(offset, size, data) ==
  IF offset = None THEN Raise("TypeError")
  ELSE Ok(Slice(data, offset, offset + size))

get_count(count_raw) ==
  IF ~Unpackable(count_raw, 4) THEN Raise("struct.error")
  ELSE Ok(unpack_L(count_raw))

(***************************************************************************)
(* parse_direntry.                                                         *)
(***************************************************************************)
\* bytes.decode('utf-16'): a leading FF FE or FE FF is a byte order mark and
\* is dropped (FE FF selects big endian), the default is little endian; a
\* surrogate pair is one code point; an odd length or an unpaired surrogate
\* raises UnicodeDecodeError.  The string is a sequence of code points.
IsHighSurrogate(u) == u >= 55296 /\ u <= 56319
IsLowSurrogate(u) == u >= 56320 /\ u <= 57343

\* the 16-bit code units of an even number of bytes
Utf16Units(b, bigEndian) ==
  [k \in 1..(Len(b) \div 2) |->
     IF bigEndian THEN 256 * b[2 * k - 1] + b[2 * k]
     ELSE b[2 * k - 1] + 256 * b[2 * k]]

\* the code points of the code units: a high surrogate must be followed by
\* a low one and a low surrogate must follow a high one
Utf16Points(u) ==
  LET n == Len(u)
      unpaired ==
        {k \in 1..n :
           \/ IsHighSurrogate(u[k]) /\ (k = n \/ ~IsLowSurrogate(u[k + 1]))
           \/ IsLowSurrogate(u[k]) /\ (k = 1 \/ ~IsHighSurrogate(u[k - 1]))}
      first == SelectSeq([k \in 1..n |-> k],
                         LAMBDA k : ~IsLowSurrogate(u[k]))
  IN IF unpaired # {} THEN Raise("UnicodeDecodeError")
     ELSE Ok([j \in 1..Len(first) |->
                IF IsHighSurrogate(u[first[j]])
                THEN 65536 + (u[first[j]] - 55296) * 1024
                     + (u[first[j] + 1] - 56320)
                ELSE u[first[j]]])

decode_utf16(b) ==
  LET bomLE == Len(b) >= 2 /\ b[1] = 255 /\ b[2] = 254
      bomBE == Len(b) >= 2 /\ b[1] = 254 /\ b[2] = 255
      body == IF bomLE \/ bomBE THEN SubSeq(b, 3, Len(b)) ELSE b
  IN IF Len(b) % 2 = 1 THEN Raise("UnicodeDecodeError")
     ELSE Utf16Points(Utf16Units(body, bomBE))

\* str.rstrip('\x00')
rstrip_nul(s) ==
  LET kept == {k \in 1..Len(s) : s[k] # 0}
  IN IF kept = {} THEN <<>>
     ELSE SubSeq(s, 1, CHOOSE k \in kept : \A j \in kept : j <= k)

\* the fields unpacked by parse_direntry: <<first, last, size>>
DirEntryUnpacked ==
  << <<64, 66, 2>>, <<66, 67, 1>>, <<67, 68, 1>>, <<68, 72, 4>>,
     <<72, 76, 4>>, <<76, 80, 4>>, <<116, 120, 4>>, <<120, 128, 8>> >>

\* parse_direntry reading the object type one byte late: a mutant
ObjectTypeOf_ColorByte(dir_entry) == unpack_B(Slice(dir_entry, 67, 68))
\* struct.unpack_from('<B', dir_entry[66:67])
ObjectTypeOf(dir_entry) == unpack_B(Slice(dir_entry, 66, 67))

parse_direntry(dir_entry) ==
  LET name == Slice(dir_entry, 0, 64)
      decoded == decode_utf16(name)
  IN IF decoded.err # "none" THEN Raise(decoded.err)
     ELSE IF \E i \in 1..Len(DirEntryUnpacked) :
               ~Unpackable(Slice(dir_entry, DirEntryUnpacked[i][1],
                                 DirEntryUnpacked[i][2]),
                           DirEntryUnpacked[i][3])
          THEN Raise("struct.error")
     ELSE Ok([name_decoded |-> rstrip_nul(decoded.val),
              name |-> name,
              name_length |-> unpack_H(Slice(dir_entry, 64, 66)),
              object_type |-> ObjectTypeOf(dir_entry),
              color_flag |-> unpack_B(Slice(dir_entry, 67, 68)),
              left_sibling |-> unpack_l(Slice(dir_entry, 68, 72)),
              right_sibling |-> unpack_l(Slice(dir_entry, 72, 76)),
              child_id |-> unpack_l(Slice(dir_entry, 76, 80)),
              clsid |-> Slice(dir_entry, 80, 96),
              state |-> Slice(dir_entry, 96, 100),
              creation_time |-> Slice(dir_entry, 100, 108),
              modification_time |-> Slice(dir_entry, 108, 116),
              starting_sector |-> unpack_L(Slice(dir_entry, 116, 120)),
              stream_size |-> unpack_Q(Slice(dir_entry, 120, 128))])

(***************************************************************************)
(* The parse.  run() is one function; the model follows it stage by stage. *)
(* pc names the stage about to run; error is "none" or the exception that  *)
(* ended the parse at that stage; pc = "done" is the return of directory.  *)
(***************************************************************************)
VARIABLES
  data,                \* the bytes read from the target file
  pc,                  \* the stage of run() about to execute
  error,               \* "none", or the exception that left run()
  sector_size, difat_sector_count, difat_start,
  output,              \* the BytesIO the DIFAT is collected in
  difat,               \* output.read()
  sector_chain_difat, fat_sector_count,
  fat_index,           \* position of the loop over sector_chain_difat
  cache,               \* the BytesIO of the FAT, then of the directory
  sector_chain_fat, dirsect, sector_id,
  iterations,          \* iterations of the directory chain loop so far
  directory,
  reads,               \* the calls of get_sector_data so far
  probe                \* argument and result of one get_sector_id call

vars == <<data, pc, error, sector_size, difat_sector_count, difat_start,
          output, difat, sector_chain_difat, fat_sector_count, fat_index,
          cache, sector_chain_fat, dirsect, sector_id, iterations,
          directory, reads, probe>>

\* a local of run() that has not been assigned yet
Unset == <<>>
NoSector == SectorID(0, "", None)

\* an exception leaves run(): nothing but error changes
Fail(e) ==
  /\ error' = e
  /\ UNCHANGED <<data, pc, sector_size, difat_sector_count, difat_start,
                 output, difat, sector_chain_difat, fat_sector_count,
                 fat_index, cache, sector_chain_fat, dirsect, sector_id,
                 iterations, directory, reads, probe>>

\* one call of get_sector_data as recorded in reads
ReadOf(stage, offset, size, got) ==
  [stage |-> stage, offset |-> offset, size |-> size, got |-> Len(got)]

\* lines 109-134: magic, sector shift, DIFAT count and start, header DIFAT
Header ==
  /\ pc = "header" /\ error = "none"
  /\ LET magic == Slice(data, 0, 8)
         sector_shift_raw ==
           Slice(data, SECTOR_SHIFT_OFFSET,
                 SECTOR_SHIFT_OFFSET + SECTOR_SHIFT_SIZE)
         size == Pow2(unpack_H(sector_shift_raw))
         count == get_count(Slice(data, NUM_DIFAT_SECTS_OFFSET,
                              NUM_DIFAT_SECTS_OFFSET + NUM_DIFAT_SECTS_SIZE))
         start == get_sector_id(
                    Slice(data, FIRST_DIFAT_SECT_OFFSET,
                          FIRST_DIFAT_SECT_OFFSET + FIRST_DIFAT_SECT_SIZE),
                    size)
         header_difat ==
           get_sector_data(HEADER_DIFAT_OFFSET, HEADER_DIFAT_SIZE, data)
     IN IF magic # MAGIC THEN Fail("RuntimeError: Not a compound file.")
        ELSE IF ~Unpackable(sector_shift_raw, 2) THEN Fail("struct.error")
        ELSE IF count.err # "none" THEN Fail(count.err)
        ELSE IF start.err # "none" THEN Fail(start.err)
        ELSE /\ sector_size' = size
             /\ difat_sector_count' = count.val
             /\ difat_start' = start.val
             /\ output' = header_difat.val
             /\ reads' = Append(reads, ReadOf("header", HEADER_DIFAT_OFFSET,
                                       HEADER_DIFAT_SIZE, header_difat.val))
             /\ pc' = "difat_ext"
             /\ UNCHANGED <<data, error, difat, sector_chain_difat,
                            fat_sector_count, fat_index, cache,
                            sector_chain_fat, dirsect, sector_id, iterations,
                            directory, probe>>

\* lines 136-152: the DIFAT extension sectors.  output is a BytesIO, which
\* has no append: line 139 raises AttributeError right after the first
\* extension sector is read, so lines 141-147 never run.
AssembleDifat ==
  /\ pc = "difat_ext" /\ error = "none"
  /\ IF difat_sector_count # 0 /\ difat_start.offset # None
        /\ difat_start.offset # 0
     THEN LET difat_next ==
                get_sector_data(difat_start.offset, sector_size, data)
          IN /\ reads' = Append(reads, ReadOf("difat", difat_start.offset,
                                              sector_size, difat_next.val))
             /\ error' = "AttributeError"
             /\ UNCHANGED <<data, pc, sector_size, difat_sector_count,
                            difat_start, output, difat, sector_chain_difat,
                            fat_sector_count, fat_index, cache,
                            sector_chain_fat, dirsect, sector_id, iterations,
                            directory, probe>>
     ELSE /\ difat' = output
          /\ pc' = "difat_decode"
          /\ UNCHANGED <<data, error, sector_size, difat_sector_count,
                         difat_start, output, sector_chain_difat,
                         fat_sector_count, fat_index, cache, sector_chain_fat,
                         dirsect, sector_id, iterations, directory, reads,
                         probe>>

\* the loop of lines 154-158 appending before the test of line 156, so
\* that the first negative entry is collected too: a mutant
RECURSIVE DifatChain_AppendFirst(_, _)
DifatChain_AppendFirst(bytes, size) ==
  IF bytes = <<>> THEN Ok(<<>>)
  ELSE LET sid == get_sector_id(Slice(bytes, 0, SECTOR_ID_SIZE), size)
       IN IF sid.err # "none" THEN Raise(sid.err)
          ELSE IF sid.val.sector_id < 0 THEN Ok(<<sid.val>>)
          ELSE LET rest == DifatChain_AppendFirst(
                             Slice(bytes, SECTOR_ID_SIZE, Len(bytes)), size)
               IN IF rest.err # "none" THEN rest
                  ELSE Ok(<<sid.val>> \o rest.val)

\* lines 154-158: decode 4-byte chunks, break at the first negative id
RECURSIVE DifatChainFrom(_, _)
DifatChainFrom(bytes, size) ==
  IF bytes = <<>> THEN Ok(<<>>)
  ELSE LET sid == get_sector_id(Slice(bytes, 0, SECTOR_ID_SIZE), size)
       IN IF sid.err # "none" THEN Raise(sid.err)
          ELSE IF sid.val.sector_id < 0 THEN Ok(<<>>)
          ELSE LET rest == DifatChainFrom(
                             Slice(bytes, SECTOR_ID_SIZE, Len(bytes)), size)
               IN IF rest.err # "none" THEN rest
                  ELSE Ok(<<sid.val>> \o rest.val)

DifatChain(bytes, size) == DifatChainFrom(bytes, size)

DecodeDifat ==
  /\ pc = "difat_decode" /\ error = "none"
  /\ LET chain == DifatChain(difat, sector_size)
     IN IF chain.err # "none" THEN Fail(chain.err)
        ELSE /\ sector_chain_difat' = chain.val
             /\ pc' = "count_check"
             /\ UNCHANGED <<data, error, sector_size, difat_sector_count,
                            difat_start, output, difat, fat_sector_count,
                            fat_index, cache, sector_chain_fat, dirsect,
                            sector_id, iterations, directory, reads, probe>>

\* the test of line 167 letting a short chain pass: a mutant
CountMismatch_OnlyLonger(chain, count) == Len(chain) > count
\* line 167: len(sector_chain_difat) != fat_sector_count
CountMismatch(chain, count) == Len(chain) # count

\* lines 162-172: the FAT sector count and the consistency check; line 170
\* indexes sector_chain_difat[0], an IndexError on an empty chain
CheckCount ==
  /\ pc = "count_check" /\ error = "none"
  /\ LET count == get_count(Slice(data, NUM_FAT_SECTS_OFFSET,
                                  NUM_FAT_SECTS_OFFSET + NUM_FAT_SECTS_SIZE))
     IN IF count.err # "none" THEN Fail(count.err)
        ELSE IF CountMismatch(sector_chain_difat, count.val)
        THEN /\ error' = "RuntimeError: Number of FAT sectors from DIFAT length does not match count in header."
             /\ fat_sector_count' = count.val
             /\ UNCHANGED <<data, pc, sector_size, difat_sector_count,
                            difat_start, output, difat, sector_chain_difat,
                            fat_index, cache, sector_chain_fat, dirsect,
                            sector_id, iterations, directory, reads, probe>>
        ELSE IF sector_chain_difat = <<>>
        THEN /\ error' = "IndexError"
             /\ fat_sector_count' = count.val
             /\ UNCHANGED <<data, pc, sector_size, difat_sector_count,
                            difat_start, output, difat, sector_chain_difat,
                            fat_index, cache, sector_chain_fat, dirsect,
                            sector_id, iterations, directory, reads, probe>>
        ELSE /\ fat_sector_count' = count.val
             /\ cache' = <<>>
             /\ fat_index' = 1
             /\ pc' = "fat_build"
             /\ UNCHANGED <<data, error, sector_size, difat_sector_count,
                            difat_start, output, difat, sector_chain_difat,
                            sector_chain_fat, dirsect, sector_id, iterations,
                            directory, reads, probe>>

\* lines 174-178: one iteration of the loop over sector_chain_difat
ReadFatSector ==
  /\ pc = "fat_build" /\ error = "none"
  /\ LET sid == sector_chain_difat[fat_index]
         sector_data == get_sector_data(sid.offset, sector_size, data)
     IN /\ cache' = cache \o sector_data.val
        /\ reads' = Append(reads, ReadOf("fat", sid.offset, sector_size,
                                         sector_data.val))
        /\ IF fat_index = Len(sector_chain_difat)
           THEN pc' = "fat_decode" /\ fat_index' = fat_index
           ELSE pc' = pc /\ fat_index' = fat_index + 1
        /\ UNCHANGED <<data, error, sector_size, difat_sector_count,
                       difat_start, output, difat, sector_chain_difat,
                       fat_sector_count, sector_chain_fat, dirsect, sector_id,
                       iterations, directory, probe>>

\* lines 184-188: cache.read(4) until the buffer is exhausted
\* every read is decoded in turn; the first that fails ends the loop
FatEntries(bytes, size) ==
  LET n == (Len(bytes) + SECTOR_ID_SIZE - 1) \div SECTOR_ID_SIZE
      sid == [k \in 1..n |->
                get_sector_id(Slice(bytes, SECTOR_ID_SIZE * (k - 1),
                                    SECTOR_ID_SIZE * k), size)]
      bad == {k \in 1..n : sid[k].err # "none"}
  IN IF bad # {} THEN Raise(sid[CHOOSE k \in bad : \A j \in bad : k <= j].err)
     ELSE Ok([k \in 1..n |-> sid[k].val])

\* lines 180-193
DecodeFat ==
  /\ pc = "fat_decode" /\ error = "none"
  /\ LET fat == FatEntries(cache, sector_size)
     IN IF fat.err # "none" THEN Fail(fat.err)
        ELSE /\ sector_chain_fat' = fat.val
             /\ pc' = "dir_first"
             /\ UNCHANGED <<data, error, sector_size, difat_sector_count,
                            difat_start, output, difat, sector_chain_difat,
                            fat_sector_count, fat_index, cache, dirsect,
                            sector_id, iterations, directory, reads, probe>>

\* lines 195-202: the first directory sector
DirFirst ==
  /\ pc = "dir_first" /\ error = "none"
  /\ LET first == get_sector_id(
                    Slice(data, FIRST_DIR_SECT_OFFSET,
                          FIRST_DIR_SECT_OFFSET + FIRST_DIR_SECT_SIZE),
                    sector_size)
     IN IF first.err # "none" THEN Fail(first.err)
        ELSE LET sector_data ==
                   get_sector_data(first.val.offset, sector_size, data)
             IN IF sector_data.err # "none" THEN Fail(sector_data.err)
                ELSE /\ dirsect' = first.val
                     /\ cache' = sector_data.val
                     /\ reads' = Append(reads,
                                   ReadOf("dir", first.val.offset,
                                          sector_size, sector_data.val))
                     /\ sector_id' = first.val.sector_id
                     /\ iterations' = 0
                     /\ pc' = "dir_chain"
                     /\ UNCHANGED <<data, error, sector_size,
                                    difat_sector_count, difat_start, output,
                                    difat, sector_chain_difat,
                                    fat_sector_count, fat_index,
                                    sector_chain_fat, directory, probe>>

\* line 204: while sector_id >= 0
ChainContinues(id) == id >= 0

\* lines 204-210: one iteration of the directory chain loop and the loop
\* test that follows it.  The loop has no iteration limit; the model stops
\* following it after MaxIter iterations.
DirStep ==
  /\ pc = "dir_chain" /\ error = "none"
  /\ iterations < MaxIter
  /\ IF dirsect.sector_id >= Len(sector_chain_fat) THEN Fail("IndexError")
     ELSE LET next == sector_chain_fat[dirsect.sector_id + 1]
              sector_data == get_sector_data(next.offset, sector_size, data)
          IN /\ dirsect' = next
             /\ sector_id' = next.sector_id
             /\ iterations' = iterations + 1
             /\ IF next.sector_id >= 0
                THEN /\ cache' = cache \o sector_data.val
                     /\ reads' = Append(reads, ReadOf("dir", next.offset,
                                          sector_size, sector_data.val))
                ELSE UNCHANGED <<cache, reads>>
             /\ pc' = IF ChainContinues(next.sector_id) THEN pc
                      ELSE "dir_decode"
             /\ UNCHANGED <<data, error, sector_size, difat_sector_count,
                            difat_start, output, difat, sector_chain_difat,
                            fat_sector_count, fat_index, sector_chain_fat,
                            directory, probe>>

\* lines 218-221: cache.read(128) until the buffer is exhausted
RECURSIVE DirEntries(_)
DirEntries(bytes) ==
  IF bytes = <<>> THEN Ok(<<>>)
  ELSE LET entry == parse_direntry(Slice(bytes, 0, DIRENTRY_SIZE))
       IN IF entry.err # "none" THEN Raise(entry.err)
          ELSE LET rest == DirEntries(Slice(bytes, DIRENTRY_SIZE, Len(bytes)))
               IN IF rest.err # "none" THEN rest
                  ELSE Ok(<<entry.val>> \o rest.val)

\* lines 212-230: decode the directory stream and return the entries
DecodeEntries ==
  /\ pc = "dir_decode" /\ error = "none"
  /\ LET entries == DirEntries(cache)
     IN IF entries.err # "none" THEN Fail(entries.err)
        ELSE /\ directory' = entries.val
             /\ pc' = "done"
             /\ UNCHANGED <<data, error, sector_size, difat_sector_count,
                            difat_start, output, difat, sector_chain_difat,
                            fat_sector_count, fat_index, cache,
                            sector_chain_fat, dirsect, sector_id, iterations,
                            reads, probe>>

(***************************************************************************)
(* The containers the parse is run on.  A container is written field by    *)
(* field at the offsets of the format: the header fields, the header       *)
(* DIFAT, then sectors at sector_size * (id + 1); a later field overwrites *)
(* an earlier one where they overlap, and the file is cut at len.          *)
(***************************************************************************)
Max(a, b) == IF a > b THEN a ELSE b
LE16(n) == <<n % 256, (n \div 256) % 256>>
LE32(n) == <<n % 256, (n \div 256) % 256, (n \div 65536) % 256,
             (n \div 16777216) % 256>>
Fill(n, b) == [i \in 1..n |-> b]
PadTo(s, n, b) == s \o Fill(Max(n - Len(s), 0), b)

Flat32(ids) ==
  [i \in 1..(4 * Len(ids)) |-> LE32(ids[(i - 1) \div 4 + 1])[((i - 1) % 4) + 1]]
Flat16(us) ==
  [i \in 1..(2 * Len(us)) |-> LE16(us[(i - 1) \div 2 + 1])[((i - 1) % 2) + 1]]

\* the byte at 0-based offset off of the fields written in order
RECURSIVE FieldByte(_, _)
FieldByte(fields, off) ==
  IF fields = <<>> THEN 0
  ELSE LET f == fields[Len(fields)]
       IN IF off >= f[1] /\ off < f[1] + Len(f[2]) THEN f[2][off - f[1] + 1]
          ELSE FieldByte(SubSeq(fields, 1, Len(fields) - 1), off)

RECURSIVE SectorFields(_, _)
SectorFields(sectors, size) ==
  IF sectors = <<>> THEN <<>>
  ELSE << <<size * (Head(sectors)[1] + 1), Head(sectors)[2]>> >>
       \o SectorFields(Tail(sectors), size)

Container(p) ==
  LET fields ==
        << <<0, Fill(512, 0)>>,
           <<0, p.magic>>,
           <<SECTOR_SHIFT_OFFSET, LE16(p.shift)>>,
           <<NUM_FAT_SECTS_OFFSET, LE32(p.nfat)>>,
           <<FIRST_DIR_SECT_OFFSET, LE32(p.dirfirst)>>,
           <<FIRST_DIFAT_SECT_OFFSET, LE32(p.difatfirst)>>,
           <<NUM_DIFAT_SECTS_OFFSET, LE32(p.ndifat)>>,
           <<HEADER_DIFAT_OFFSET,
             PadTo(Flat32(p.difat), HEADER_DIFAT_SIZE, 255)>> >>
        \o SectorFields(p.sectors, Pow2(p.shift))
  IN [i \in 1..p.len |-> FieldByte(fields, i - 1)]

\* a 128-byte directory entry with the given raw name bytes
DirEntryBytes(name, object_type, color_flag, child_id) ==
  PadTo(name, 64, 0) \o LE16(Len(name) + 2) \o <<object_type, color_flag>>
  \o LE32(-1) \o LE32(-1) \o LE32(child_id) \o Fill(16, 0) \o Fill(4, 0)
  \o Fill(8, 0) \o Fill(8, 0) \o LE32(0) \o LE32(0) \o LE32(0)

RootEntryName == <<82, 111, 111, 116, 32, 69, 110, 116, 114, 121>>
BookName == <<66, 111, 111, 107>>
RootEntry == DirEntryBytes(Flat16(RootEntryName), 5, 1, 1)
BookEntry == DirEntryBytes(Flat16(BookName), 2, 0, -1)
\* a name that starts with a byte order mark
BomEntry == DirEntryBytes(<<255, 254>> \o Flat16(BookName), 2, 1, -1)
\* a name that starts with a low surrogate
SurrogateEntry == DirEntryBytes(<<0, 220>> \o Flat16(BookName), 2, 1, -1)
\* an unused directory entry
FreeEntry == PadTo(<<>>, 64, 0) \o LE16(0) \o <<0, 0>> \o LE32(-1)
             \o LE32(-1) \o LE32(-1) \o Fill(48, 0)

\* a FAT sector of n entries, all FREESECT but those set in the function at
FatSector(n, at) ==
  Flat32([i \in 1..n |-> IF (i - 1) \in DOMAIN at THEN at[i - 1]
                         ELSE FREESECT])

\* a DIFAT extension sector: n - 1 free entries and the next pointer
DifatSector(n, next) == Flat32([i \in 1..n |-> IF i = n THEN next
                                               ELSE FREESECT])

\* 128-byte sectors: FAT in sector 3, directory in sectors 4 and 5
Base128 ==
  [magic |-> MAGIC, shift |-> 7, nfat |-> 1, dirfirst |-> 4,
   difatfirst |-> ENDOFCHAIN, ndifat |-> 0, difat |-> <<3, FREESECT, 7>>,
   sectors |-> << <<3, FatSector(32, (3 :> FATSECT) @@ (4 :> 5)
                                     @@ (5 :> ENDOFCHAIN))>>,
                  <<4, RootEntry>>, <<5, BookEntry>> >>,
   len |-> 896]

\* the header DIFAT against the header FAT sector count
InputsDifat ==
  { Container([Base128 EXCEPT !.difat = d, !.nfat = n]) :
      d \in { <<3, FREESECT, 7>>, <<3, ENDOFCHAIN, 7>>, <<3, -5, 7>>,
              <<FREESECT, 3>>, <<3, 3, FREESECT, 7>>, <<3, 10, FREESECT>>,
              <<-5>> },
      n \in 0..MaxFatCount }

\* the FAT entries of the directory chain
InputsChain ==
  { Container([Base128 EXCEPT
       !.dirfirst = f,
       !.sectors = << <<3, FatSector(32, (3 :> FATSECT) @@ (4 :> x)
                                         @@ (5 :> y))>>,
                      <<4, RootEntry>>, <<5, BookEntry>> >>]) :
      f \in {4, 5},
      x \in {ENDOFCHAIN, FREESECT, FATSECT, DIFSECT, 5, 4, 40, -5},
      y \in {ENDOFCHAIN, 4, 5} }

\* the first directory sector against the length of the file
InputsDirFirst ==
  { Container([Base128 EXCEPT !.dirfirst = f, !.len = n]) :
      f \in {4, 5, 6, 40, ENDOFCHAIN, -5},
      n \in {896, 768, 700, 640, 576, 514} }

\* the header cut short, with and without the magic
InputsHeader ==
  { Container([Base128 EXCEPT !.magic = m, !.len = n]) :
      m \in {MAGIC, [MAGIC EXCEPT ![8] = 0], <<>>},
      n \in {0, 4, 8, 31, 32, 47, 75, 76, 78, 80, 200, 512} }

\* DIFAT extension sectors 6 and 7
InputsDifatExt ==
  { Container([Base128 EXCEPT
       !.ndifat = n, !.difatfirst = f, !.len = 1152,
       !.sectors = @ \o << <<6, DifatSector(32, 7)>>,
                           <<7, DifatSector(32, ENDOFCHAIN)>> >>]) :
      n \in 0..MaxDifatCount,
      f \in {ENDOFCHAIN, FREESECT, 6, 100, -5} }

\* the names of the directory entries
InputsNames ==
  { Container([Base128 EXCEPT !.sectors[3] = <<5, e>>]) :
      e \in {BomEntry, SurrogateEntry, FreeEntry} }

\* buffers shorter than the header, whose sectors lie inside the header
InputsShort ==
  { Container([Base128 EXCEPT
       !.difat = <<0, FREESECT>>, !.dirfirst = 1, !.len = n,
       !.sectors = << <<0, FatSector(32, (0 :> FATSECT)
                                         @@ (1 :> ENDOFCHAIN))>>,
                      <<1, RootEntry>> >>]) : n \in {384, 383, 300} }
  \cup
  { Container([Base128 EXCEPT
       !.difat = <<1, FREESECT>>, !.dirfirst = 0, !.len = 264,
       !.sectors = << <<0, RootEntry>>,
                      <<1, FatSector(2, (0 :> ENDOFCHAIN)
                                        @@ (1 :> FATSECT))>> >>]) }

\* 64-byte sectors: FAT in sector 7, directory in sectors 8, 9 and 10
Inputs64 ==
  { Container([Base128 EXCEPT
       !.shift = 6, !.difat = <<7, FREESECT>>, !.dirfirst = 8, !.len = 768,
       !.sectors = << <<7, FatSector(16, (7 :> FATSECT) @@ (8 :> x)
                                         @@ (9 :> y) @@ (10 :> ENDOFCHAIN))>>,
                      <<8, RootEntry>>, <<10, BookEntry>> >>]) :
      x \in {9, ENDOFCHAIN}, y \in {10, ENDOFCHAIN} }

\* 512-byte sectors, no DIFAT extension, one FAT sector (sector 0) holding
\* the chain of the directory, one directory sector (sector 1) holding the
\* root entry and three unused entries
MinimalParams ==
  [magic |-> MAGIC, shift |-> 9, nfat |-> 1, dirfirst |-> 1,
   difatfirst |-> ENDOFCHAIN, ndifat |-> 0, difat |-> <<0>>,
   sectors |-> << <<0, FatSector(128, (0 :> FATSECT) @@ (1 :> ENDOFCHAIN))>>,
                  <<1, RootEntry \o FreeEntry \o FreeEntry \o FreeEntry>> >>,
   len |-> 1536]
MinimalContainer == Container(MinimalParams)
Inputs512 ==
  { MinimalContainer, Container([MinimalParams EXCEPT !.len = 1152]) }

Inputs == InputsDifat \cup InputsChain \cup InputsDirFirst \cup InputsHeader
          \cup InputsDifatExt \cup InputsNames \cup InputsShort \cup Inputs64
          \cup Inputs512

(***************************************************************************)
(* Specification of the parse: run() on any of the containers.             *)
(***************************************************************************)
NoProbe == [id |-> 0, raw |-> <<>>, size |-> 0, out |-> Unset]

Init ==
  /\ data \in Inputs
  /\ pc = "header"
  /\ error = "none"
  /\ sector_size = 0
  /\ difat_sector_count = 0
  /\ difat_start = NoSector
  /\ output = <<>>
  /\ difat = <<>>
  /\ sector_chain_difat = <<>>
  /\ fat_sector_count = 0
  /\ fat_index = 0
  /\ cache = <<>>
  /\ sector_chain_fat = <<>>
  /\ dirsect = NoSector
  /\ sector_id = 0
  /\ iterations = 0
  /\ directory = <<>>
  /\ reads = <<>>
  /\ probe = NoProbe

Next ==
  \/ Header
  \/ AssembleDifat
  \/ DecodeDifat
  \/ CheckCount
  \/ ReadFatSector
  \/ DecodeFat
  \/ DirFirst
  \/ DirStep
  \/ DecodeEntries

Spec == Init /\ [][Next]_vars

TypeOK == pc \in {"header", "difat_ext", "difat_decode", "count_check",
                  "fat_build", "fat_decode", "dir_first", "dir_chain",
                  "dir_decode", "done", "probe", "probed"}

(***************************************************************************)
(* Specification of the sector addressing alone: get_sector_id applied to  *)
(* the little-endian encoding of a signed 32-bit id, for the sector size   *)
(* 2^shift that run() computes.  The ids are those around zero, those      *)
(* around the byte boundaries and the ends of the 32-bit range, as far as  *)
(* the offset stays below 2^31.                                            *)
(***************************************************************************)
ProbeIds ==
  (-MaxProbe..MaxProbe)
  \cup {-2147483647 - 1, -2147483647, -16777217, -16777216, -65537, -65536,
        -257, -256, -129, -128, 127, 128, 255, 256, 65535, 65536, 524286}
ProbeShifts == {0, 7, 9, 12}

AddrInit ==
  /\ data = <<>>
  /\ pc = "probe"
  /\ error = "none"
  /\ sector_size = 0
  /\ difat_sector_count = 0
  /\ difat_start = NoSector
  /\ output = <<>>
  /\ difat = <<>>
  /\ sector_chain_difat = <<>>
  /\ fat_sector_count = 0
  /\ fat_index = 0
  /\ cache = <<>>
  /\ sector_chain_fat = <<>>
  /\ dirsect = NoSector
  /\ sector_id = 0
  /\ iterations = 0
  /\ directory = <<>>
  /\ reads = <<>>
  /\ probe \in { [id |-> i, raw |-> LE32(i), size |-> Pow2(s), out |-> Unset] :
                   i \in ProbeIds, s \in ProbeShifts }

\* one call get_sector_id(sector_id_raw, sector_size)
Probe ==
  /\ pc = "probe"
  /\ probe' = [probe EXCEPT !.out = get_sector_id(probe.raw, probe.size)]
  /\ pc' = "probed"
  /\ UNCHANGED <<data, error, sector_size, difat_sector_count, difat_start,
                 output, difat, sector_chain_difat, fat_sector_count,
                 fat_index, cache, sector_chain_fat, dirsect, sector_id,
                 iterations, directory, reads>>

AddrNext == Probe

AddrSpec == AddrInit /\ [][AddrNext]_vars

(***************************************************************************)
(* Properties.                                                             *)
(***************************************************************************)
StageRank(stage) ==
  CASE stage = "header" -> 0
    [] stage = "difat_ext" -> 1
    [] stage = "difat_decode" -> 2
    [] stage = "count_check" -> 3
    [] stage = "fat_build" -> 4
    [] stage = "fat_decode" -> 5
    [] stage = "dir_first" -> 6
    [] stage = "dir_chain" -> 7
    [] stage = "dir_decode" -> 8
    [] stage = "done" -> 9
    [] OTHER -> -1

CeilDiv(a, b) == (a + b - 1) \div b

ConsistencyError ==
  "RuntimeError: Number of FAT sectors from DIFAT length does not match count in header."
NotCompoundError == "RuntimeError: Not a compound file."

\* the reads of FAT sectors and of directory sectors
SectorReads == SelectSeq(reads, LAMBDA r : r.stage \in {"fat", "dir"})
FatReads == SelectSeq(reads, LAMBDA r : r.stage = "fat")

\* C1: the directory chain traversal ends within ceil(fileLength /
\* sectorSize) iterations, a cycle in the FAT being reported as an error
\* instead of followed.
C1_ChainTraversalBounded ==
  pc \in {"dir_chain", "dir_decode", "done"}
    => iterations <= CeilDiv(Len(data), sector_size)

\* C2: a FAT sector or directory sector whose byte range is not fully
\* inside the container makes the parse fail; the parse never goes on with
\* a short or empty sector.
C2_OutOfBoundsFails ==
  (\E i \in 1..Len(SectorReads) :
      SectorReads[i].offset + SectorReads[i].size > Len(data))
    => error # "none"

\* C3: the parse gets past the consistency check only if the number of FAT
\* sector ids collected from the DIFAT equals the FAT sector count of the
\* header; when they differ it stops at the check with the consistency
\* error, no FAT or directory sector has been read, no entry is returned.
C3_CountConsistency ==
  LET declared == unpack_L(Slice(data, NUM_FAT_SECTS_OFFSET,
                                 NUM_FAT_SECTS_OFFSET + NUM_FAT_SECTS_SIZE))
  IN (StageRank(pc) >= StageRank("count_check")
      /\ Len(sector_chain_difat) # declared)
       => /\ pc = "count_check"
          /\ error \in {"none", ConsistencyError}
          /\ SectorReads = <<>>
          /\ directory = <<>>

C3_Witness ==
  /\ pc = "count_check"
  /\ error = ConsistencyError
  /\ Len(sector_chain_difat) # fat_sector_count
  /\ sector_chain_difat # <<>>

\* the DIFAT stream of the format: the header entries, then every
\* extension sector of the chain without its last 4 bytes
RECURSIVE ExtensionEntries(_, _)
ExtensionEntries(id, n) ==
  IF n = 0 THEN <<>>
  ELSE LET sector == Slice(data, sector_size * (id + 1),
                           sector_size * (id + 2))
       IN SubSeq(sector, 1, Len(sector) - 4)
          \o ExtensionEntries(unpack_l(SubSeq(sector, Len(sector) - 3,
                                              Len(sector))), n - 1)

\* C4: with n > 0 DIFAT extension sectors and a valid first DIFAT sector id
\* the assembled DIFAT is the header entries followed by the entries of the
\* n extension sectors, and the parse goes on to decode it.
C4_DifatExtensionAssembled ==
  (/\ StageRank(pc) >= StageRank("difat_ext")
   /\ difat_sector_count > 0
   /\ difat_start.sector_id >= 0
   /\ difat_start.offset + sector_size <= Len(data))
    => /\ pc = "difat_ext" => error = "none"
       /\ StageRank(pc) > StageRank("difat_ext")
            => difat = Slice(data, HEADER_DIFAT_OFFSET,
                             HEADER_DIFAT_OFFSET + HEADER_DIFAT_SIZE)
                       \o ExtensionEntries(difat_start.sector_id,
                                           difat_sector_count)

\* C5: the directory chain loop is left successfully only on ENDOFCHAIN.
C5_ChainEndsAtEndOfChain ==
  pc \in {"dir_decode", "done"} => dirsect.sector_id = ENDOFCHAIN

\* C6 as claimed: the minimal container decodes to exactly one entry, the
\* root entry.
C6_MinimalOneEntry ==
  (data = MinimalContainer /\ pc = "done")
    => /\ Len(directory) = 1
       /\ directory[1].name_decoded = RootEntryName
       /\ directory[1].object_type = 5

\* C6 amended: the minimal container (512-byte sectors, no DIFAT extension,
\* one FAT sector, one directory sector holding the root entry and three
\* unused entries) parses without error to four entries, one per 128-byte
\* slot of the directory sector: the first is "Root Entry" with object type
\* 5, the other three have an empty name and object type 0.
C6_MinimalFourEntries ==
  data = MinimalContainer
    => /\ error = "none"
       /\ pc = "done"
            => /\ Len(directory) = 4
               /\ directory[1].name_decoded = RootEntryName
               /\ directory[1].object_type = 5
               /\ \A k \in 2..4 : /\ directory[k].name_decoded = <<>>
                                  /\ directory[k].object_type = 0

C6_Witness == data = MinimalContainer /\ pc = "done"

\* C7: a directory stream of L bytes decodes without error to floor(L/128)
\* records, the k-th from bytes [128k, 128k + 128); a shorter last slice is
\* dropped.
C7_OneRecordPerSlice ==
  pc \in {"dir_decode", "done"}
    => /\ error = "none"
       /\ pc = "done"
            => /\ Len(directory) = Len(cache) \div 128
               /\ \A k \in 1..Len(directory) :
                    directory[k].name
                      = Slice(cache, 128 * (k - 1), 128 * (k - 1) + 64)

\* C8: a buffer without the magic fails on the magic before anything else,
\* and a buffer shorter than 512 bytes never gets past the header stage.
C8_HeaderGuard ==
  /\ Slice(data, 0, 8) # MAGIC
       => pc = "header" /\ error \in {"none", NotCompoundError}
  /\ Len(data) < 512 => pc = "header"

\* the header of run(): the bytes up to the end of the header DIFAT, which
\* line 133 reads at HEADER_DIFAT_OFFSET
HeaderEnd == HEADER_DIFAT_OFFSET + HEADER_DIFAT_SIZE

\* what get_sector_id gives for a sentinel or another negative id
SentinelResult(id, r) ==
  /\ id \in -4..-1
       => /\ r.err = "none"
          /\ r.val.sector_id = id
          /\ r.val.offset = None
          /\ r.val.display = (CASE id = -1 -> "FREESECT"
                                [] id = -2 -> "ENDOFCHAIN"
                                [] id = -3 -> "FATSECT"
                                [] id = -4 -> "DIFSECT")
  /\ id < -4 => r.err # "none"

\* C9 as claimed: get_sector_id on the encoding of id with sector size S
\* gives, for id >= 0, the offset S + id * S >= S, which is never inside
\* the header region; for id in -4..-1 the matching sentinel without an
\* offset; for any other negative id an exception.
C9_OffsetOutsideHeader ==
  pc = "probed"
    => LET id == probe.id
           S == probe.size
           r == probe.out
       IN /\ id >= 0 => /\ r.err = "none"
                        /\ r.val.sector_id = id
                        /\ r.val.offset = S + id * S
                        /\ r.val.offset >= S
                        /\ r.val.offset >= HeaderEnd
          /\ SentinelResult(id, r)

\* C9 amended: for id >= 0 the offset is S + id * S >= S, and it is outside
\* the 512-byte header whenever S >= 512 (for a smaller S the first sectors
\* lie inside the header); for id in -4..-1 the matching sentinel without
\* an offset; for any other negative id an exception.
C9_SectorAddress ==
  pc = "probed"
    => LET id == probe.id
           S == probe.size
           r == probe.out
       IN /\ id >= 0 => /\ r.err = "none"
                        /\ r.val.sector_id = id
                        /\ r.val.offset = S + id * S
                        /\ r.val.offset >= S
                        /\ S >= HeaderEnd => r.val.offset >= HeaderEnd
          /\ SentinelResult(id, r)

C9_Witness ==
  /\ pc = "probed"
  /\ probe.id = 3
  /\ probe.size = 512
  /\ probe.out.err = "none"
  /\ probe.out.val.offset = 2048

\* the 4-byte entries of the assembled DIFAT as signed integers
DifatEntry(k) == unpack_l(SubSeq(difat, 4 * k - 3, 4 * k))
\* the number of entries before the first negative one
DifatPrefixLen ==
  LET n == Len(difat) \div 4
      neg == {k \in 1..n : DifatEntry(k) < 0}
  IN IF neg = {} THEN n
     ELSE (CHOOSE k \in neg : \A j \in neg : k <= j) - 1

\* C10: the FAT sector ids are the longest prefix of non-negative DIFAT
\* entries; nothing after the first negative entry reaches the sequence,
\* the count compared with the header, or the FAT sectors read.
C10_DifatPrefix ==
  StageRank(pc) >= StageRank("count_check")
    => /\ Len(sector_chain_difat) = DifatPrefixLen
       /\ \A k \in 1..DifatPrefixLen :
            sector_chain_difat[k].sector_id = DifatEntry(k)
       /\ StageRank(pc) > StageRank("count_check")
            => fat_sector_count = DifatPrefixLen
       /\ StageRank(pc) >= StageRank("fat_decode")
            => /\ Len(FatReads) = DifatPrefixLen
               /\ \A k \in 1..DifatPrefixLen :
                    FatReads[k].offset = sector_size * (DifatEntry(k) + 1)

C10_Witness ==
  /\ pc = "fat_decode"
  /\ DifatPrefixLen >= 1
  /\ \E k \in (DifatPrefixLen + 2)..(Len(difat) \div 4) : DifatEntry(k) >= 0

====
